---- MODULE Spec2Model ----
(***************************************************************************)
(* compose: a command line utility that writes the file skeleton of a      *)
(* React.js component (src/compose.py).                                    *)
(*                                                                         *)
(* Text is modelled at two levels.  A string the program inspects          *)
(* character by character (the component name, the line typed at the       *)
(* prompt) is a sequence of one-character strings.  A template is the      *)
(* sequence of its maximal brace-free runs and its single braces, which is *)
(* the granularity at which str.format reads it.  Text that is only        *)
(* written (file contents, console lines) is a plain string.               *)
(***************************************************************************)
EXTENDS Integers, Sequences, FiniteSets, TLC

VARIABLES
  pc,         \* position of the run in main()
  args,       \* the argparse namespace: dir, component_name, skip_confirm, simple
  templates,  \* the ordered mapping get_templates returned: <<filename, body>> pairs
  stdout,     \* lines printed to standard output by this run
  stderr,     \* lines printed to the error stream by this run
  line,       \* what input() returned at the prompt, NoLine if it was not called
  exit_code,  \* the process exit status, NoExit while the run is in progress
  fs,         \* the filesystem: [dirs: set of paths, files: path -> content]
  fs0,        \* the filesystem as it was when this run started
  opened,     \* filenames make_component opened for writing, in order
  i,          \* index of the next item of the loop in make_component
  run,        \* number of the current invocation
  prev,       \* the command line of the invocation before this one, if it succeeded
  fn_in,      \* pure-function harness: the argument(s)
  fn_out      \* pure-function harness: the result, NoResult before the call

vars ==
  <<pc, args, templates, stdout, stderr, line, exit_code, fs, fs0, opened, i, run,
    prev, fn_in, fn_out>>

----------------------------------------------------------------------------
(* Bounds *)

\* longest component name drawn for is_component_name
MaxNameLen == 3

\* number of successive invocations of the tool
MaxRuns == 2

----------------------------------------------------------------------------
(* Characters *)

AsciiUpper ==
  {"A", "B", "C", "D", "E", "F", "G", "H", "I", "J", "K", "L", "M",
   "N", "O", "P", "Q", "R", "S", "T", "U", "V", "W", "X", "Y", "Z"}

AsciiLower ==
  {"a", "b", "c", "d", "e", "f", "g", "h", "i", "j", "k", "l", "m",
   "n", "o", "p", "q", "r", "s", "t", "u", "v", "w", "x", "y", "z"}

AsciiDigit == {"0", "1", "2", "3", "4", "5", "6", "7", "8", "9"}

\* non-ASCII characters, written by their code points, that Python's Unicode
\* \w matches: a letter (LATIN SMALL LETTER N WITH TILDE) and a decimal digit
\* (ARABIC-INDIC DIGIT THREE)
UnicodeWord == {"U+00F1", "U+0663"}

\* LATIN SMALL LETTER LONG S (U+017F): its case folding is "s"
LongS == "U+017F"

UpperSeq ==
  <<"A", "B", "C", "D", "E", "F", "G", "H", "I", "J", "K", "L", "M",
    "N", "O", "P", "Q", "R", "S", "T", "U", "V", "W", "X", "Y", "Z">>

LowerSeq ==
  <<"a", "b", "c", "d", "e", "f", "g", "h", "i", "j", "k", "l", "m",
    "n", "o", "p", "q", "r", "s", "t", "u", "v", "w", "x", "y", "z">>

\* all sequences over S of length at most n
SeqsUpTo(S, n) == UNION {[1..k -> S] : k \in 0..n}

\* the Python str made of the characters of s
RECURSIVE Str(_)
Str(s) == IF s = <<>> THEN "" ELSE Head(s) \o Str(Tail(s))

----------------------------------------------------------------------------
(* Templates: src/compose.py lines 13-76 *)

INDEX ==
  <<
    "import React from 'react'\nimport PropTypes from 'prop-types'\nimport Actions, ", "{", "{",
    " actionPropTypes ", "}", "}", " from './Actions'\nimport View from './View'\n\nconst ", "{",
    "name", "}", " = (props) => (\n  <View ", "{", "{", "...props", "}", "}", " ", "{", "{",
    "...Actions(props)", "}", "}", " />\n)\n\nconst propTypes = ", "{", "{", " ", "}", "}", "\n\n",
    "{", "name", "}", ".displayName = '", "{", "name", "}", "'\n\n", "{", "name", "}",
    ".propTypes = propTypes\n\nView.propTypes = ", "{", "{",
    "\n  ...propTypes,\n  ...actionPropTypes,\n", "}", "}", "\n\nexport default ", "{", "name",
    "}", "\n"
  >>

SIMPLE_INDEX ==
  <<
    "import React from 'react'\nimport PropTypes from 'prop-types'\nimport styles from './styles.module.css'\n\nconst ",
    "{", "name", "}", " = (props) => (\n  <></>\n)\n\n", "{", "name", "}", ".displayName = '", "{",
    "name", "}", "'\n\n", "{", "name", "}", ".propTypes = ", "{", "{", " ", "}", "}",
    "\n\nexport default ", "{", "name", "}", "\n"
  >>

VIEW ==
  <<
    "import React from 'react'\nimport styles from './styles.module.css'\n\nconst View = (props) => (\n  <>\n  </>\n)\n\nView.displayName = '",
    "{", "name", "}", "/View'\n\nexport default View\n"
  >>

\* the template ACTIONS (ACTIONS alone is not a name TLA+ accepts)
ACTIONS_JS ==
  <<
    "import React from 'react'\nimport PropTypes from 'prop-types'\n\nconst Actions = (props) => ",
    "{", "{", " ", "}", "}", "\n\nexport const actionPropTypes = ", "{", "{", " ", "}", "}",
    "\n\nexport default Actions\n"
  >>

----------------------------------------------------------------------------
(* confirm: src/compose.py lines 100-101 *)

\* str.casefold of one character; the result is a string (a sequence of
\* characters): ASCII capitals fold to their small letter, the long s folds to "s"
CaseFoldChar(c) ==
  IF c \in AsciiUpper
    THEN <<LowerSeq[CHOOSE k \in 1..26 : UpperSeq[k] = c]>>
    ELSE IF c = LongS THEN <<"s">> ELSE <<c>>

\* casefold with the case mapping left out
casefold_none(s) == s

RECURSIVE casefold(_)
casefold(s) == IF s = <<>> THEN <<>> ELSE CaseFoldChar(Head(s)) \o casefold(Tail(s))

\* confirm with the comparison dropped: every line is taken as a yes
confirm_always(input, true_value) == TRUE

\* input is the line input(prompt) returned; the trailing newline is already
\* removed by input() and nothing else is
confirm(input, true_value) == casefold(input) = casefold(true_value)

----------------------------------------------------------------------------
(* is_component_name: src/compose.py lines 104-105 *)

\* \w of a str pattern (no re.ASCII flag): Unicode word characters
WordChars == AsciiUpper \cup AsciiLower \cup AsciiDigit \cup {"_"} \cup UnicodeWord

IsWordChar(c) == c \in WordChars

\* $ without re.MULTILINE, tried after the first k characters of s: at the end
\* of the string, or just before a newline that is the last character
DollarMatches(s, k) == k = Len(s) \/ (k = Len(s) - 1 /\ s[Len(s)] = "\n")

\* is_component_name with the pattern compiled under re.ASCII and anchored by \Z
is_component_name_ascii(name) ==
  /\ Len(name) >= 1
  /\ name[1] \in AsciiUpper
  /\ \A j \in 2..Len(name) : name[j] \in WordChars \ UnicodeWord

\* re.match(r'^[A-Z][\w]*$', name) is not None: some k is where [A-Z][\w]* stops
is_component_name(name) ==
  \E k \in 1..Len(name) :
    /\ name[1] \in AsciiUpper
    /\ \A j \in 2..k : IsWordChar(name[j])
    /\ DollarMatches(name, k)

----------------------------------------------------------------------------
(* render_template: src/compose.py lines 108-109 *)

NoException == "None"

Emit(text, rest) ==
  IF rest.exc = NoException THEN [exc |-> NoException, text |-> text \o rest.text] ELSE rest

\* str.format with the doubled braces copied as they stand
RECURSIVE format_keep_braces(_, _)
format_keep_braces(t, context) ==
  IF t = <<>> THEN [exc |-> NoException, text |-> ""]
  ELSE IF Len(t) >= 3 /\ t[1] = "{" /\ t[2] \in DOMAIN context /\ t[3] = "}"
    THEN Emit(context[t[2]], format_keep_braces(SubSeq(t, 4, Len(t)), context))
    ELSE Emit(t[1], format_keep_braces(Tail(t), context))

\* template.format(**context), read left to right as str.format does:
\*   "{{" and "}}" are escapes for one brace,
\*   "{" field "}" is a replacement field looked up in the keyword arguments,
\*   "{}" is an automatically numbered positional field (there are none),
\*   any other brace is malformed.
\* Field names with an attribute, index, conversion or format spec do not occur.
RECURSIVE format(_, _)
format(t, context) ==
  IF t = <<>> THEN [exc |-> NoException, text |-> ""]
  ELSE IF t[1] = "{" THEN
    IF Len(t) >= 2 /\ t[2] = "{"
      THEN Emit("{", format(SubSeq(t, 3, Len(t)), context))
    ELSE IF Len(t) >= 2 /\ t[2] = "}"
      THEN [exc |-> "IndexError", text |-> ""]
    ELSE IF Len(t) >= 3 /\ t[3] = "}"
      THEN IF t[2] \in DOMAIN context
             THEN Emit(context[t[2]], format(SubSeq(t, 4, Len(t)), context))
             ELSE [exc |-> "KeyError", text |-> ""]
    ELSE [exc |-> "ValueError", text |-> ""]
  ELSE IF t[1] = "}" THEN
    IF Len(t) >= 2 /\ t[2] = "}"
      THEN Emit("}", format(SubSeq(t, 3, Len(t)), context))
      ELSE [exc |-> "ValueError", text |-> ""]
  ELSE Emit(t[1], format(Tail(t), context))

\* file.write(template.format(**context)): file is the content written so far
\* to the open file; an exception of format leaves it as it is
render_template(file, template, context) ==
  LET r == format(template, context)
  IN  IF r.exc = NoException
        THEN [exc |-> NoException, text |-> file \o r.text]
        ELSE [exc |-> r.exc, text |-> file]

----------------------------------------------------------------------------
(* get_templates: src/compose.py lines 127-136 *)

\* get_templates with Actions.js and View.js listed after the stylesheet
get_templates_reordered(simple) ==
  IF simple
    THEN <<<<"styles.module.css", <<>>>>, <<"index.js", SIMPLE_INDEX>>>>
    ELSE <<<<"index.js", INDEX>>, <<"styles.module.css", <<>>>>,
           <<"Actions.js", ACTIONS_JS>>, <<"View.js", VIEW>>>>

\* get_templates that ignores its argument
get_templates_full(simple) ==
  <<<<"index.js", INDEX>>, <<"Actions.js", ACTIONS_JS>>, <<"View.js", VIEW>>,
    <<"styles.module.css", <<>>>>>>

\* a dict keeps insertion order: the mapping is the sequence of its items
get_templates(simple) ==
  IF simple
    THEN <<<<"index.js", SIMPLE_INDEX>>, <<"styles.module.css", <<>>>>>>
    ELSE <<<<"index.js", INDEX>>, <<"Actions.js", ACTIONS_JS>>, <<"View.js", VIEW>>,
           <<"styles.module.css", <<>>>>>>

\* templates.keys()
keys(mapping) == [k \in 1..Len(mapping) |-> mapping[k][1]]

----------------------------------------------------------------------------
(* pathlib.Path: a path relative to the working directory is the sequence of
   its parts; Path('.') has none *)

Path(d) == IF d = "." THEN <<>> ELSE <<d>>

\* p / name
Join(p, name) == p \o <<name>>

\* str(p)
RECURSIVE PathStr(_)
PathStr(p) ==
  IF p = <<>> THEN "."
  ELSE IF Len(p) = 1 THEN p[1]
  ELSE p[1] \o "/" \o PathStr(Tail(p))

\* p and the directories above it, down to the working directory
Parents(p) == {SubSeq(p, 1, k) : k \in 0..Len(p)}

\* the filesystem with the file at path holding text
WriteText(f, path, text) ==
  [dirs |-> f.dirs, files |-> (path :> text) @@ f.files]

\* the names of the files directly inside directory d
Listing(f, d) ==
  {p[Len(p)] : p \in {q \in DOMAIN f.files : Len(q) = Len(d) + 1 /\ SubSeq(q, 1, Len(d)) = d}}

----------------------------------------------------------------------------
(* The command line, the terminal and the disk *)

\* values of DIR: the default and a directory that does not exist yet
Dirs == {".", "out"}

Button == <<"B", "u", "t", "t", "o", "n">>

\* values of COMPONENT_NAME
ArgNames ==
  {Button, <<"b", "u", "t", "t", "o", "n">>, <<"M", "y", " ", "C">>, <<>>}

\* characters of the names is_component_name is tried on
NameChars == {"A", "b", "1", "_", " ", "-", "\n", "U+00F1", "U+0663"}

\* lines typed at the prompt
StdinLines ==
  {<<"s">>, <<"S">>, <<"n">>, <<"N">>, <<>>, <<" ", "s">>, <<"s", " ">>, <<" ", "S", " ">>,
   <<"s", "i">>, <<"y">>, <<LongS>>}

\* only the working directory exists
EmptyFS == [dirs |-> {<<>>}, files |-> <<>>]

\* ./Button exists already and holds a file of the user's and an index.js
UsedFS ==
  [dirs  |-> {<<>>, <<"Button">>},
   files |-> (<<"Button", "notes.txt">> :> "todo\n")
             @@ (<<"Button", "index.js">> :> "// old\n")]

NoExit == -1

NoLine == [read |-> FALSE, eof |-> FALSE, text |-> <<>>]

NoArgs == [dir |-> ".", component_name |-> <<>>, skip_confirm |-> FALSE, simple |-> FALSE]

NoPrev == [succeeded |-> FALSE, args |-> NoArgs]

NoCall == [f |-> "none", name |-> <<>>, template |-> <<>>]

\* the names is_component_name is tried on
Names == SeqsUpTo(NameChars, MaxNameLen)

NoResult == [called |-> FALSE, bool |-> FALSE, exc |-> NoException, text |-> ""]

Terminal == {"Success", "Cancel", "Abort", "Error"}

\* base_path / component_name
Root == Join(Path(args.dir), Str(args.component_name))

ERROR_NAME ==
  "Error: El nombre del componente debe comenzar en una letra mayúscula y no debe contener espacios."

PROMPT == "¿Desea continuar? (s/n) "

\* the lines print_tree prints for the filenames
print_tree(filenames) ==
  [k \in 1..Len(filenames) |->
     IF k < Len(filenames)
       THEN "    |---- " \o filenames[k]
       ELSE "    \\---- " \o filenames[k]]

Init ==
  /\ pc = "Start"
  /\ args = NoArgs
  /\ templates = <<>>
  /\ stdout = <<>>
  /\ stderr = <<>>
  /\ line = NoLine
  /\ exit_code = NoExit
  /\ fs \in {EmptyFS, UsedFS}
  /\ fs0 = fs
  /\ opened = <<>>
  /\ i = 0
  /\ run = 1
  /\ prev = NoPrev
  /\ fn_in = NoCall
  /\ fn_out = NoResult

----------------------------------------------------------------------------
(* main: src/compose.py lines 139-174 *)

\* args = make_args_parser().parse_args()
ParseArgs ==
  /\ pc = "Start"
  /\ \E d \in Dirs, n \in ArgNames, y \in BOOLEAN, s \in BOOLEAN :
       args' = [dir |-> d, component_name |-> n, skip_confirm |-> y, simple |-> s]
  /\ pc' = "Validate"
  /\ UNCHANGED <<templates, stdout, stderr, line, exit_code, fs, fs0, opened, i, run,
                 prev, fn_in, fn_out>>

\* Validate that reports the name and goes on
ValidateNoExit ==
  /\ pc = "Validate"
  /\ stderr' = IF is_component_name(args.component_name)
                 THEN stderr ELSE Append(stderr, ERROR_NAME)
  /\ pc' = "ListPlan"
  /\ UNCHANGED <<args, templates, stdout, line, exit_code, fs, fs0, opened, i, run,
                 prev, fn_in, fn_out>>

\* if not is_component_name(component_name): print(..., file=sys.stderr); sys.exit(1)
Validate ==
  /\ pc = "Validate"
  /\ IF is_component_name(args.component_name)
       THEN /\ pc' = "ListPlan"
            /\ UNCHANGED <<stderr, exit_code>>
       ELSE /\ stderr' = Append(stderr, ERROR_NAME)
            /\ exit_code' = 1
            /\ pc' = "Abort"
  /\ UNCHANGED <<args, templates, stdout, line, fs, fs0, opened, i, run, prev, fn_in,
                 fn_out>>

\* templates = get_templates(...); the target, the tree and the warning are printed
ListPlan ==
  /\ pc = "ListPlan"
  /\ templates' = get_templates(args.simple)
  /\ stdout' = stdout
       \o <<"Esta operación resultará en el siguiente arbol de archivos:\n "
              \o PathStr(Root) \o "/">>
       \o print_tree(keys(templates'))
       \o <<"Si alguno de estos archivos ya existe, serán sobreescritos.">>
  /\ pc' = "Confirm"
  /\ UNCHANGED <<args, stderr, line, exit_code, fs, fs0, opened, i, run, prev, fn_in,
                 fn_out>>

\* args.skip_confirm is set: confirm is not called
ConfirmSkip ==
  /\ pc = "Confirm"
  /\ args.skip_confirm
  /\ pc' = "MakeComponent"
  /\ UNCHANGED <<args, templates, stdout, stderr, line, exit_code, fs, fs0, opened, i,
                 run, prev, fn_in, fn_out>>

\* confirm is called and input() returns a line
ConfirmRead ==
  /\ pc = "Confirm"
  /\ ~args.skip_confirm
  /\ \E l \in StdinLines :
       /\ line' = [read |-> TRUE, eof |-> FALSE, text |-> l]
       /\ IF confirm(l, <<"s">>)
            THEN /\ stdout' = Append(stdout, PROMPT)
                 /\ pc' = "MakeComponent"
                 /\ UNCHANGED exit_code
            ELSE /\ stdout' = stdout \o <<PROMPT, "Operación cancelada.">>
                 /\ exit_code' = 0
                 /\ pc' = "Cancel"
  /\ UNCHANGED <<args, templates, stderr, fs, fs0, opened, i, run, prev, fn_in, fn_out>>

\* confirm is called and standard input is at its end: input() raises EOFError,
\* which nothing catches
ConfirmEOF ==
  /\ pc = "Confirm"
  /\ ~args.skip_confirm
  /\ line' = [read |-> TRUE, eof |-> TRUE, text |-> <<>>]
  /\ stdout' = Append(stdout, PROMPT)
  /\ stderr' = Append(stderr, "Traceback: EOFError")
  /\ exit_code' = 1
  /\ pc' = "Error"
  /\ UNCHANGED <<args, templates, fs, fs0, opened, i, run, prev, fn_in, fn_out>>

----------------------------------------------------------------------------
(* make_component: src/compose.py lines 112-124 *)

\* an exception nothing catches: the traceback is printed and the exit status is 1
Uncaught(exc) ==
  /\ stderr' = Append(stderr, "Traceback: " \o exc)
  /\ exit_code' = 1
  /\ pc' = "Error"

\* MakeRoot without the root.exists() test: mkdir of an existing directory
\* raises FileExistsError
MakeRootNoCheck ==
  /\ pc = "MakeComponent"
  /\ IF Root \in fs.dirs
       THEN /\ Uncaught("FileExistsError")
            /\ UNCHANGED <<fs, i>>
       ELSE /\ fs' = [fs EXCEPT !.dirs = @ \cup Parents(Root)]
            /\ i' = 1
            /\ pc' = "WriteLoop"
            /\ UNCHANGED <<stderr, exit_code>>
  /\ UNCHANGED <<args, templates, stdout, line, fs0, opened, run, prev, fn_in, fn_out>>

\* MakeRoot that empties a root that exists already
MakeRootClean ==
  /\ pc = "MakeComponent"
  /\ fs' = [dirs  |-> fs.dirs \cup Parents(Root),
            files |-> [p \in {q \in DOMAIN fs.files :
                                ~(Len(q) > Len(Root) /\ SubSeq(q, 1, Len(Root)) = Root)}
                         |-> fs.files[p]]]
  /\ i' = 1
  /\ pc' = "WriteLoop"
  /\ UNCHANGED <<args, templates, stdout, stderr, line, exit_code, fs0, opened, run,
                 prev, fn_in, fn_out>>

\* root = base / name; if not root.exists(): root.mkdir(parents=True)
\* mkdir either creates root and the missing directories above it, or fails
\* (OSError: permission denied, no space left, ...)
MakeRoot ==
  /\ pc = "MakeComponent"
  /\ IF Root \in fs.dirs
       THEN /\ i' = 1
            /\ pc' = "WriteLoop"
            /\ UNCHANGED <<fs, stderr, exit_code>>
       ELSE \/ /\ fs' = [fs EXCEPT !.dirs = @ \cup Parents(Root)]
               /\ i' = 1
               /\ pc' = "WriteLoop"
               /\ UNCHANGED <<stderr, exit_code>>
            \/ /\ Uncaught("OSError")
               /\ UNCHANGED <<fs, i>>
  /\ UNCHANGED <<args, templates, stdout, line, fs0, opened, run, prev, fn_in, fn_out>>

\* the text one pass of the loop body writes to the file it opened
Rendered(k) ==
  render_template("", templates[k][2], [name |-> Str(args.component_name)])

\* WriteFile that removes the files of this run when one of them fails
WriteFileRollback ==
  /\ pc = "WriteLoop"
  /\ i <= Len(templates)
  /\ LET item_path == Join(Root, templates[i][1])
     IN  \/ /\ fs' = [dirs |-> fs.dirs,
                      files |-> [p \in DOMAIN fs.files \ {Join(Root, opened[k]) : k \in 1..Len(opened)}
                                   |-> fs.files[p]]]
            /\ Uncaught("OSError")
            /\ UNCHANGED <<opened, i>>
         \/ /\ opened' = Append(opened, templates[i][1])
            /\ fs' = WriteText(fs, item_path, Rendered(i).text)
            /\ i' = i + 1
            /\ UNCHANGED <<pc, stderr, exit_code>>
  /\ UNCHANGED <<args, templates, stdout, line, fs0, run, prev, fn_in, fn_out>>

\* one pass of: for path, template in file_template_mapping.items():
\*                with (root / path).open('w') as file:
\*                    render_template(file, template, **context)
\* open('w') fails and leaves the file as it was, or creates or truncates it;
\* then the text is written, or format raises, or the write or the flush at
\* close fails; both leave the file truncated (the text is shorter than the
\* buffer, so nothing reaches the disk before the flush)
WriteFile ==
  /\ pc = "WriteLoop"
  /\ i <= Len(templates)
  /\ LET item_path == Join(Root, templates[i][1])
         r == Rendered(i)
     IN  \/ /\ Uncaught("OSError")
            /\ UNCHANGED <<fs, opened, i>>
         \/ /\ opened' = Append(opened, templates[i][1])
            /\ \/ /\ r.exc = NoException
                  /\ fs' = WriteText(fs, item_path, r.text)
                  /\ i' = i + 1
                  /\ UNCHANGED <<pc, stderr, exit_code>>
               \/ /\ r.exc = NoException
                  /\ fs' = WriteText(fs, item_path, "")
                  /\ Uncaught("OSError")
                  /\ UNCHANGED i
               \/ /\ r.exc # NoException
                  /\ fs' = WriteText(fs, item_path, "")
                  /\ Uncaught(r.exc)
                  /\ UNCHANGED i
  /\ UNCHANGED <<args, templates, stdout, line, fs0, run, prev, fn_in, fn_out>>

\* the loop is over, make_component returns and main prints the last message;
\* the interpreter exits with status 0
Finish ==
  /\ pc = "WriteLoop"
  /\ i > Len(templates)
  /\ stdout' = Append(stdout, "Operación realizada exitosamente.")
  /\ exit_code' = 0
  /\ pc' = "Success"
  /\ UNCHANGED <<args, templates, stderr, line, fs, fs0, opened, i, run, prev, fn_in,
                 fn_out>>

\* if __name__ == '__main__': main() -- the tool is invoked again, on the
\* filesystem the last run left
Reinvoke ==
  /\ pc \in Terminal
  /\ run < MaxRuns
  /\ prev' = IF pc = "Success" THEN [succeeded |-> TRUE, args |-> args] ELSE NoPrev
  /\ run' = run + 1
  /\ pc' = "Start"
  /\ args' = NoArgs
  /\ templates' = <<>>
  /\ stdout' = <<>>
  /\ stderr' = <<>>
  /\ line' = NoLine
  /\ exit_code' = NoExit
  /\ fs0' = fs
  /\ opened' = <<>>
  /\ i' = 0
  /\ UNCHANGED <<fs, fn_in, fn_out>>

Next ==
  \/ ParseArgs
  \/ Validate
  \/ ListPlan
  \/ ConfirmSkip
  \/ ConfirmRead
  \/ ConfirmEOF
  \/ MakeRoot
  \/ WriteFile
  \/ Finish
  \/ Reinvoke

Spec == Init /\ [][Next]_vars

----------------------------------------------------------------------------
(* The pure functions, each called once on an argument drawn from a bounded set *)

\* the template bodies stored in the registry
Registry ==
  UNION {{get_templates(s)[k][2] : k \in 1..Len(get_templates(s))} : s \in BOOLEAN}

PureCalls ==
  {[f |-> "is_component_name", name |-> n, template |-> <<>>] : n \in Names}
  \cup {[f |-> "render_template", name |-> n, template |-> t] :
          n \in {m \in Names : is_component_name(m)}, t \in Registry}

InitPure ==
  /\ pc = "Start"
  /\ args = NoArgs
  /\ templates = <<>>
  /\ stdout = <<>>
  /\ stderr = <<>>
  /\ line = NoLine
  /\ exit_code = NoExit
  /\ fs = EmptyFS
  /\ fs0 = fs
  /\ opened = <<>>
  /\ i = 0
  /\ run = 1
  /\ prev = NoPrev
  /\ fn_in \in PureCalls
  /\ fn_out = NoResult

CallIsComponentName ==
  /\ fn_in.f = "is_component_name"
  /\ ~fn_out.called
  /\ fn_out' = [called |-> TRUE, bool |-> is_component_name(fn_in.name),
                exc |-> NoException, text |-> ""]
  /\ UNCHANGED <<pc, args, templates, stdout, stderr, line, exit_code, fs, fs0, opened, i,
                 run, prev, fn_in>>

\* render_template on a file just opened for writing, with context = {'name': name}
CallRenderTemplate ==
  /\ fn_in.f = "render_template"
  /\ ~fn_out.called
  /\ LET r == render_template("", fn_in.template, [name |-> Str(fn_in.name)])
     IN  fn_out' = [called |-> TRUE, bool |-> FALSE, exc |-> r.exc, text |-> r.text]
  /\ UNCHANGED <<pc, args, templates, stdout, stderr, line, exit_code, fs, fs0, opened, i,
                 run, prev, fn_in>>

NextPure ==
  \/ CallIsComponentName
  \/ CallRenderTemplate

SpecPure == InitPure /\ [][NextPure]_vars

----------------------------------------------------------------------------
(* Properties *)

\* the command line has been parsed and the name is one is_component_name accepts
ValidRun == pc # "Start" /\ is_component_name(args.component_name)

\* the run has passed the confirmation and is in, or is through, make_component
Proceeded == pc \in {"MakeComponent", "WriteLoop", "Success"} \/ (pc = "Error" /\ ~line.eof)

\* a line was read at the prompt
LineRead == line.read /\ ~line.eof

FullKeys == <<"index.js", "Actions.js", "View.js", "styles.module.css">>

SimpleKeys == <<"index.js", "styles.module.css">>

SelectedKeys == IF args.simple THEN SimpleKeys ELSE FullKeys

Range(s) == {s[k] : k \in 1..Len(s)}

\* the last uncaught exception is a failure of the disk
DiskFailure == stderr # <<>> /\ stderr[Len(stderr)] = "Traceback: OSError"

\* the files of the selected set all hold the text rendered for them
AllWritten ==
  \A k \in 1..Len(templates) :
    /\ Join(Root, templates[k][1]) \in DOMAIN fs.files
    /\ fs.files[Join(Root, templates[k][1])] = Rendered(k).text

\* C1: with a valid name and no --yes, nothing is created before a line is
\* read; a rejected line (such as n) ends the run in Cancel with exit code 0
\* and the filesystem as it was; the lines s and S lead into make_component,
\* and a run that reaches Success has written every file of the plan.
C1_NoWriteUnlessAccepted ==
  (ValidRun /\ ~args.skip_confirm) =>
    /\ ~line.read => (fs = fs0 /\ ~Proceeded)
    /\ (LineRead /\ (line.text = <<"n">> \/ ~confirm(line.text, <<"s">>))) =>
         (pc = "Cancel" /\ exit_code = 0 /\ fs = fs0)
    /\ (LineRead /\ line.text \in {<<"s">>, <<"S">>}) => Proceeded
    /\ fs # fs0 => (LineRead /\ Proceeded)
    /\ pc = "Success" => AllWritten

C1_Witness ==
  /\ ValidRun /\ ~args.skip_confirm
  /\ pc = "Cancel" /\ line.text = <<"n">> /\ exit_code = 0
  /\ fs = UsedFS

\* C2: a name is_component_name rejects ends the run in Abort with exit code
\* 1, whatever DIR, --yes and --simple are; the prompt is never read and the
\* filesystem never changes.
C2_InvalidNameAborts ==
  (pc # "Start" /\ ~is_component_name(args.component_name)) =>
    /\ pc \in {"Validate", "Abort"}
    /\ pc = "Abort" => exit_code = 1
    /\ pc = "Validate" => exit_code = NoExit
    /\ ~line.read
    /\ stdout = <<>>
    /\ fs = fs0

C2_Witness ==
  /\ pc = "Abort" /\ exit_code = 1
  /\ args.component_name = <<"b", "u", "t", "t", "o", "n">>
  /\ args.skip_confirm /\ args.simple /\ args.dir = "out"
  /\ fs = fs0

\* str.strip: leading and trailing blanks removed
RECURSIVE LStrip(_)
LStrip(s) == IF s # <<>> /\ Head(s) = " " THEN LStrip(Tail(s)) ELSE s

RECURSIVE RStrip(_)
RStrip(s) ==
  IF s # <<>> /\ s[Len(s)] = " " THEN RStrip(SubSeq(s, 1, Len(s) - 1)) ELSE s

Strip(s) == RStrip(LStrip(s))

\* C3 as stated: without --yes the run proceeds to write exactly when the
\* line, trimmed and compared without regard to case, is s (the long s, whose
\* capital is S, counted as a case of s).
C3_TrimmedConfirm ==
  (ValidRun /\ ~args.skip_confirm /\ LineRead) =>
    (Proceeded <=> Strip(line.text) \in {<<"s">>, <<"S">>, <<LongS>>})

\* C3 (amended): without --yes the run proceeds to write exactly when the
\* line as typed, not trimmed, equals s under case folding: the line is s, S
\* or the long s (U+017F); every other line, " s", "s " and " S " among them,
\* cancels.
C3_UntrimmedConfirm ==
  (ValidRun /\ ~args.skip_confirm /\ LineRead) =>
    /\ Proceeded <=> line.text \in {<<"s">>, <<"S">>, <<LongS>>}
    /\ ~Proceeded <=> pc = "Cancel"

C3_Witness ==
  /\ ValidRun /\ ~args.skip_confirm /\ LineRead
  /\ line.text = <<" ", "S", " ">>
  /\ pc = "Cancel"

AsciiWordChars == AsciiUpper \cup AsciiLower \cup AsciiDigit \cup {"_"}

\* C4 as stated: the name is not empty, starts with one of A-Z and goes on
\* with ASCII letters, ASCII digits and underscores only.
AsciiName(name) ==
  /\ name # <<>>
  /\ name[1] \in AsciiUpper
  /\ \A k \in 2..Len(name) : name[k] \in AsciiWordChars

C4_AsciiNames ==
  (fn_in.f = "is_component_name" /\ fn_out.called) => (fn_out.bool <=> AsciiName(fn_in.name))

\* the name without the one newline that may end it
Chomp(name) ==
  IF Len(name) >= 2 /\ name[Len(name)] = "\n" THEN SubSeq(name, 1, Len(name) - 1) ELSE name

\* C4 (amended): is_component_name(name) is true exactly when name, without
\* one trailing newline if it has one, is not empty, starts with one of A-Z
\* and goes on with word characters only: letters and digits, ASCII or not,
\* and underscores.  It is false for the empty string and for a space, a
\* hyphen or any other newline anywhere.
C4_UnicodeNames ==
  (fn_in.f = "is_component_name" /\ fn_out.called) =>
    (fn_out.bool <=>
       LET body == Chomp(fn_in.name)
       IN  /\ body # <<>>
           /\ body[1] \in AsciiUpper
           /\ \A k \in 2..Len(body) : body[k] \in AsciiWordChars \cup {"U+00F1", "U+0663"})

C4_Witness ==
  /\ fn_in.f = "is_component_name" /\ fn_out.called
  /\ fn_in.name = <<"A", "U+00F1", "\n">>
  /\ fn_out.bool

\* a step of the run in progress
RunStep ==
  ParseArgs \/ Validate \/ ListPlan \/ ConfirmSkip \/ ConfirmRead \/ ConfirmEOF
  \/ MakeRoot \/ WriteFile \/ Finish

\* C5: with a valid name and --yes no input is read and the run never stops
\* short of an end state; unless the disk fails that end state is Success with
\* exit code 0, and from an empty target DIR/NAME then holds exactly the files
\* of the selected set, index.js, Actions.js, View.js and styles.module.css,
\* or index.js and styles.module.css in simple mode, the stylesheet empty.
C5_YesRunSucceeds ==
  (ValidRun /\ args.skip_confirm) =>
    /\ ~line.read
    /\ pc \notin {"Abort", "Cancel"}
    /\ pc \notin Terminal => ENABLED RunStep
    /\ pc = "Error" => DiskFailure
    /\ pc = "Success" =>
         /\ exit_code = 0
         /\ Listing(fs0, Root) = {} =>
              /\ Listing(fs, Root) =
                   IF args.simple
                     THEN {"index.js", "styles.module.css"}
                     ELSE {"index.js", "Actions.js", "View.js", "styles.module.css"}
              /\ fs.files[Join(Root, "styles.module.css")] = ""
              /\ fs.files[Join(Root, "index.js")] # ""

C5_Witness ==
  /\ ValidRun /\ args.skip_confirm /\ args.simple /\ args.dir = "."
  /\ pc = "Success" /\ exit_code = 0
  /\ Listing(fs0, Root) = {}
  /\ Listing(fs, Root) = {"index.js", "styles.module.css"}

\* the tree lines of the plan for the filenames, as section 4.5 lays them out
PlanLines(filenames) ==
  [k \in 1..Len(filenames) |->
     (IF k = Len(filenames) THEN "    \\---- " ELSE "    |---- ") \o filenames[k]]

\* C6: get_templates returns the keys index.js, Actions.js, View.js,
\* styles.module.css in that order, and index.js, styles.module.css in simple
\* mode; the plan printed lists the filenames in that order and make_component
\* opens the files in that order.
C6_KeyOrder ==
  /\ keys(get_templates(FALSE)) = FullKeys
  /\ keys(get_templates(TRUE)) = SimpleKeys
  /\ pc \in {"Confirm", "MakeComponent", "WriteLoop", "Success", "Cancel", "Error"} =>
       /\ keys(templates) = SelectedKeys
       /\ SubSeq(stdout, 2, 1 + Len(SelectedKeys)) = PlanLines(SelectedKeys)
       /\ Len(opened) <= Len(SelectedKeys)
       /\ opened = SubSeq(SelectedKeys, 1, Len(opened))
       /\ pc = "Success" => opened = SelectedKeys

C6_Witness ==
  /\ pc = "Success" /\ ~args.simple
  /\ opened = FullKeys
  /\ SubSeq(stdout, 2, 5) = PlanLines(FullKeys)

\* this run repeats the command line of the run before it, which succeeded
RepeatsSuccess == prev.succeeded /\ pc # "Start" /\ args = prev.args

\* C7: a second run with --yes on the same name, directory and mode does not
\* fail on what the first run left (only the disk can fail it), and when it
\* succeeds the filesystem, file set and contents, is what the first run left.
C7_SecondRunSame ==
  (RepeatsSuccess /\ args.skip_confirm) =>
    /\ pc \notin {"Abort", "Cancel"}
    /\ pc = "MakeComponent" => ENABLED (MakeRoot /\ pc' = "WriteLoop" /\ fs' = fs)
    /\ pc = "Error" => DiskFailure
    /\ pc = "WriteLoop" => fs.dirs = fs0.dirs
    /\ pc = "Success" => (exit_code = 0 /\ fs = fs0)

C7_Witness ==
  /\ RepeatsSuccess /\ args.skip_confirm /\ ~args.simple
  /\ pc = "Success" /\ fs = fs0 /\ fs # UsedFS /\ fs # EmptyFS

\* t with every {name} token replaced by n and everything else as it is
RECURSIVE SubstituteName(_, _)
SubstituteName(t, n) ==
  IF t = <<>> THEN ""
  ELSE IF Len(t) >= 3 /\ SubSeq(t, 1, 3) = <<"{", "name", "}">>
    THEN n \o SubstituteName(SubSeq(t, 4, Len(t)), n)
    ELSE Head(t) \o SubstituteName(Tail(t), n)

\* C8 as stated: the text written is the template with every {name} replaced
\* by the name and every other character, braces included, as it is.
C8_OnlyNameReplaced ==
  (fn_in.f = "render_template" /\ fn_out.called) =>
    /\ fn_out.exc = NoException
    /\ fn_out.text = SubstituteName(fn_in.template, Str(fn_in.name))

\* the positions of t that hold a {name} token
NameTokens(t) == {k \in 1..Len(t) - 2 : SubSeq(t, k, k + 2) = <<"{", "name", "}">>}

\* the positions of t that hold the second brace of a doubled brace
RECURSIVE SecondBraces(_, _)
SecondBraces(t, k) ==
  IF k > Len(t) THEN {}
  ELSE IF k < Len(t) /\ t[k] \in {"{", "}"} /\ t[k + 1] = t[k]
    THEN {k + 1} \cup SecondBraces(t, k + 2)
    ELSE SecondBraces(t, k + 1)

\* the text of positions k.. of t, the {name} tokens replaced by n and the
\* second brace of every doubled brace left out
RECURSIVE Expand(_, _, _)
Expand(t, n, k) ==
  IF k > Len(t) THEN ""
  ELSE IF k \in NameTokens(t) THEN n \o Expand(t, n, k + 3)
  ELSE IF k \in SecondBraces(t, 1) THEN Expand(t, n, k + 1)
  ELSE t[k] \o Expand(t, n, k + 1)

\* C8 (amended): the text written is the template with every {name} replaced
\* by the name and every doubled brace, {{ or }}, replaced by a single one;
\* every other character is as it is in the template.
C8_NameReplacedBracesHalved ==
  (fn_in.f = "render_template" /\ fn_out.called) =>
    /\ fn_out.exc = NoException
    /\ fn_out.text = Expand(fn_in.template, Str(fn_in.name), 1)

C8_Witness ==
  /\ fn_in.f = "render_template" /\ fn_out.called
  /\ fn_in.template = INDEX /\ fn_in.name = <<"A", "b", "1">>
  /\ fn_out.text # SubstituteName(INDEX, "Ab1")
  /\ fn_out.text = Expand(INDEX, "Ab1", 1)

\* the file of the k-th item of the selected set is as it was when the run started
Untouched(k) ==
  LET p == Join(Root, templates[k][1])
  IN  IF p \in DOMAIN fs0.files
        THEN p \in DOMAIN fs.files /\ fs.files[p] = fs0.files[p]
        ELSE p \notin DOMAIN fs.files

\* C9: when the k-th file cannot be opened or written the run ends with the
\* exception uncaught, a non-zero exit code and no success message; the k-1
\* files before it hold their rendered text, the files after it are as they
\* were, and nothing is rolled back.
C9_PartialWrite ==
  (pc = "Error" /\ i >= 1) =>
    /\ i <= Len(templates)
    /\ exit_code # 0 /\ exit_code # NoExit
    /\ stderr # <<>>
    /\ "Operación realizada exitosamente." \notin Range(stdout)
    /\ opened \in {SubSeq(keys(templates), 1, i - 1), SubSeq(keys(templates), 1, i)}
    /\ \A k \in 1..(i - 1) :
         /\ Join(Root, templates[k][1]) \in DOMAIN fs.files
         /\ fs.files[Join(Root, templates[k][1])] = Rendered(k).text
    /\ \A k \in (i + 1)..Len(templates) : Untouched(k)
    /\ Root \in fs.dirs

C9_Witness ==
  /\ pc = "Error" /\ i = 3 /\ ~args.simple /\ fs0 = EmptyFS
  /\ Listing(fs, Root) = {"index.js", "Actions.js"}
  /\ fs.files[Join(Root, "index.js")] = Rendered(1).text

\* C10: a run creates or changes no file but those named by the selected set
\* inside DIR/NAME, and creates no directory but DIR/NAME and those above it;
\* every other file stays as it was.  A simple run that succeeds on a
\* directory a full run generated leaves Actions.js and View.js in place: the
\* directory keeps the files it had, 4 and not 2 when it held the full set.
C10_Frame ==
  LET mine == {Join(Root, templates[k][1]) : k \in 1..Len(templates)}
  IN  /\ \A p \in DOMAIN fs0.files \ mine : p \in DOMAIN fs.files /\ fs.files[p] = fs0.files[p]
      /\ DOMAIN fs0.files \subseteq DOMAIN fs.files
      /\ DOMAIN fs.files \ DOMAIN fs0.files \subseteq mine
      /\ fs0.dirs \subseteq fs.dirs
      /\ fs.dirs \ fs0.dirs \subseteq Parents(Root)
      /\ (pc \in {"Start", "Validate", "ListPlan", "Confirm", "Abort", "Cancel"}) => fs = fs0
      /\ (/\ pc = "Success" /\ args.simple
          /\ prev.succeeded /\ ~prev.args.simple
          /\ prev.args.dir = args.dir /\ prev.args.component_name = args.component_name) =>
           /\ Listing(fs, Root) = Listing(fs0, Root)
           /\ {"Actions.js", "View.js"} \subseteq Listing(fs, Root)
           /\ \A f \in {"Actions.js", "View.js"} :
                fs.files[Join(Root, f)] = fs0.files[Join(Root, f)]
           /\ Listing(fs0, Root) = Range(FullKeys) => Cardinality(Listing(fs, Root)) = 4

C10_Witness ==
  /\ pc = "Success" /\ args.simple
  /\ prev.succeeded /\ ~prev.args.simple
  /\ prev.args.dir = args.dir /\ prev.args.component_name = args.component_name
  /\ Listing(fs, Root) = Range(FullKeys)
  /\ fs.files[Join(Root, "index.js")] # fs0.files[Join(Root, "index.js")]

====
